---- MODULE Spec2Model ----
(***************************************************************************)
(* Model of the Sudoku class of src/main.cpp: the 9x9 grid, isSafe,        *)
(* findEmptyCell, the time-bounded recursive backtrack() behind solve(),   *)
(* and the text form written by toString() and read by the constructor.    *)
(* The recursion of backtrack() is an explicit stack of frames, one step   *)
(* of the code per action, so that every grid the search passes through    *)
(* is a state.                                                             *)
(***************************************************************************)
EXTENDS Integers, Sequences, FiniteSets

VARIABLES
    grid,            \* Sudoku::grid, grid[row][col] with rows and columns 0..N-1
    timed_out,       \* Sudoku::timed_out
    start_time,      \* Sudoku::start_time, in seconds of the steady clock
    now,             \* the last reading of std::chrono::steady_clock::now()
    stack,           \* the active frames of backtrack() below the current call: row, col, num
    pc,              \* where the program is
    retval,          \* the value the last finished backtrack() returned
    outcome,         \* the branch main() takes on solve()'s result
    file,            \* the text of the puzzle file, a sequence of characters
    grid0,           \* history: the grid when solve() was called
    placed,          \* history: the search has written a candidate into a cell
    gridAtTimeout,   \* history: the grid when the deadline check first failed
    stackAtTimeout,  \* history: the active frames at that moment
    saved,           \* history: the grid saveToFile() wrote
    query            \* the arguments and result of a call of isSafe

vars == <<grid, timed_out, start_time, now, stack, pc, retval, outcome, file,
          grid0, placed, gridAtTimeout, stackAtTimeout, saved, query>>

(***************************************************************************)
(* Program constants.                                                      *)
(***************************************************************************)
N == 9
BoxSize == 3
MaxNum == 9
TIME_LIMIT == 5

(***************************************************************************)
(* Bounds of the model.                                                    *)
(***************************************************************************)
\* how many cells of the base grid the starting grids vary
MaxHoles == 5
\* a varied cell holds 0 (empty) or a given in 1..MaxDigit
MaxDigit == 2
\* the steady clock is read up to MaxClock seconds after the program starts
MaxClock == 6
\* how many cells of the base grid vary in the grids isSafe is queried on
MaxQueryHoles == 3

Idx == 0 .. (N - 1)

(***************************************************************************)
(* The starting grids: a solved grid in which the cells of HoleCells are   *)
(* emptied or given a small digit.  Cells (3,3), (3,8), (4,3), (4,8) hold  *)
(* 2 1 / 1 2, so emptying them leaves two completions, and giving them     *)
(* other digits yields grids with no completion and grids with duplicates. *)
(***************************************************************************)
BaseRows ==
    << <<3, 1, 4, 6, 2, 5, 9, 7, 8>>,
       <<9, 8, 2, 4, 3, 7, 1, 6, 5>>,
       <<6, 5, 7, 9, 1, 8, 4, 2, 3>>,
       <<7, 9, 6, 2, 4, 3, 8, 5, 1>>,
       <<5, 4, 3, 1, 8, 6, 7, 9, 2>>,
       <<1, 2, 8, 5, 7, 9, 3, 4, 6>>,
       <<2, 6, 1, 3, 9, 4, 5, 8, 7>>,
       <<8, 3, 9, 7, 5, 2, 6, 1, 4>>,
       <<4, 7, 5, 8, 6, 1, 2, 3, 9>> >>

BaseGrid == [r \in Idx |-> [c \in Idx |-> BaseRows[r + 1][c + 1]]]

HoleCells == << <<0, 1>>, <<3, 3>>, <<3, 8>>, <<4, 3>>, <<4, 8>>, <<8, 6>>, <<7, 0>>, <<6, 4>> >>

HoleIndex(r, c) == CHOOSE k \in 1 .. Len(HoleCells) : HoleCells[k] = <<r, c>>

IsHole(k, r, c) == \E h \in 1 .. k : h <= Len(HoleCells) /\ HoleCells[h] = <<r, c>>

\* the base grid with each of its first k hole cells set to 0 .. MaxDigit
GridsWith(k) ==
    { [r \in Idx |-> [c \in Idx |->
          IF IsHole(k, r, c) THEN f[HoleIndex(r, c)] ELSE BaseGrid[r][c]]] :
      f \in [1 .. k -> 0 .. MaxDigit] }

StartGrids == GridsWith(MaxHoles)

\* the grids isSafe is queried on
QueryGrids == GridsWith(MaxQueryHoles)

EmptyGrid == [r \in Idx |-> [c \in Idx |-> 0]]

(***************************************************************************)
(* Faulty variants of isSafe: the row scan or the box scan left out.        *)
(***************************************************************************)
isSafeNoRow(g, row, col, num) ==
    /\ \A i \in 0 .. (N - 1) : g[i][col] # num
    /\ LET startRow == row - (row % BoxSize)
           startCol == col - (col % BoxSize)
       IN  \A i \in 0 .. (BoxSize - 1) : \A j \in 0 .. (BoxSize - 1) :
               g[startRow + i][startCol + j] # num

isSafeNoBox(g, row, col, num) ==
    /\ \A j \in 0 .. (N - 1) : g[row][j] # num
    /\ \A i \in 0 .. (N - 1) : g[i][col] # num

(***************************************************************************)
(* Sudoku::isSafe                                                          *)
(***************************************************************************)
isSafe(g, row, col, num) ==
    /\ \A j \in 0 .. (N - 1) : g[row][j] # num
    /\ \A i \in 0 .. (N - 1) : g[i][col] # num
    /\ LET startRow == row - (row % BoxSize)
           startCol == col - (col % BoxSize)
       IN  \A i \in 0 .. (BoxSize - 1) : \A j \in 0 .. (BoxSize - 1) :
               g[startRow + i][startCol + j] # num

(***************************************************************************)
(* Sudoku::findEmptyCell: the two nested loops, row by row.  When no cell  *)
(* is empty both loop variables have run to N.                             *)
(***************************************************************************)
RECURSIVE scanCols(_, _, _)
scanCols(g, row, col) ==
    IF col >= N THEN N
    ELSE IF g[row][col] = 0 THEN col
    ELSE scanCols(g, row, col + 1)

RECURSIVE scanRows(_, _)
scanRows(g, row) ==
    IF row >= N THEN [found |-> FALSE, row |-> N, col |-> N]
    ELSE LET col == scanCols(g, row, 0)
         IN  IF col < N THEN [found |-> TRUE, row |-> row, col |-> col]
             ELSE scanRows(g, row + 1)

(***************************************************************************)
(* Faulty variants of findEmptyCell: the inner loop stopping one column    *)
(* early, and the inner loop running from the last column down.            *)
(***************************************************************************)
RECURSIVE scanRowsSkipLastCol(_, _)
scanRowsSkipLastCol(g, row) ==
    IF row >= N THEN [found |-> FALSE, row |-> N, col |-> N]
    ELSE LET col == scanCols(g, row, 0)
         IN  IF col < N - 1 THEN [found |-> TRUE, row |-> row, col |-> col]
             ELSE scanRowsSkipLastCol(g, row + 1)

findEmptyCellSkipLastCol(g) == scanRowsSkipLastCol(g, 0)

RECURSIVE scanColsDown(_, _, _)
scanColsDown(g, row, col) ==
    IF col < 0 THEN N
    ELSE IF g[row][col] = 0 THEN col
    ELSE scanColsDown(g, row, col - 1)

RECURSIVE scanRowsRightToLeft(_, _)
scanRowsRightToLeft(g, row) ==
    IF row >= N THEN [found |-> FALSE, row |-> N, col |-> N]
    ELSE LET col == scanColsDown(g, row, N - 1)
         IN  IF col < N THEN [found |-> TRUE, row |-> row, col |-> col]
             ELSE scanRowsRightToLeft(g, row + 1)

findEmptyCellRightToLeft(g) == scanRowsRightToLeft(g, 0)

findEmptyCell(g) == scanRows(g, 0)

\* faulty variant: the indices swapped, grid[col][row] = v
SetCellTransposed(g, row, col, v) == [g EXCEPT ![col][row] = v]

\* grid[row][col] = v
SetCell(g, row, col, v) == [g EXCEPT ![row][col] = v]

\* a fresh frame of backtrack(): the cell found and the loop variable at its start
NewFrame(row, col) == [row |-> row, col |-> col, num |-> 1]

Top == stack[Len(stack)]
Pop == SubSeq(stack, 1, Len(stack) - 1)
NextNum == [stack EXCEPT ![Len(stack)].num = @ + 1]

solverVars == <<timed_out, start_time, now, stack, retval, outcome,
                placed, gridAtTimeout, stackAtTimeout>>
textVars == <<file, saved>>

(***************************************************************************)
(* Init: a Sudoku constructed from a puzzle file, before solve().          *)
(***************************************************************************)
InitFrom(G) ==
    /\ grid \in G
    /\ grid0 = grid
    /\ timed_out = FALSE
    /\ start_time = 0
    /\ now = 0
    /\ stack = << >>
    /\ retval = FALSE
    /\ outcome = "none"
    /\ file = << >>
    /\ placed = FALSE
    /\ gridAtTimeout = grid
    /\ stackAtTimeout = << >>
    /\ saved = grid
    /\ query = [row |-> 0, col |-> 0, num |-> 0, result |-> FALSE]

Init == InitFrom(StartGrids) /\ pc = "solve"

(***************************************************************************)
(* Sudoku::solve                                                           *)
(***************************************************************************)
Solve ==
    /\ pc = "solve"
    /\ start_time' = now
    /\ timed_out' = FALSE
    /\ pc' = "enter"
    /\ UNCHANGED <<grid, now, stack, retval, outcome, grid0, placed,
                   gridAtTimeout, stackAtTimeout, textVars, query>>

(***************************************************************************)
(* Sudoku::backtrack, entry: the deadline check on a fresh reading t of    *)
(* the clock, then findEmptyCell.                                          *)
(***************************************************************************)
BacktrackEnter ==
    /\ pc = "enter"
    /\ \E t \in now .. MaxClock :
        /\ now' = t
        /\ IF t - start_time > TIME_LIMIT
           THEN /\ timed_out' = TRUE
                /\ retval' = FALSE
                /\ pc' = "ret"
                /\ gridAtTimeout' = grid
                /\ stackAtTimeout' = stack
                /\ UNCHANGED stack
           ELSE LET e == findEmptyCell(grid)
                IN  /\ IF e.found
                       THEN /\ stack' = Append(stack, NewFrame(e.row, e.col))
                            /\ pc' = "loop"
                            /\ UNCHANGED retval
                       ELSE /\ retval' = TRUE
                            /\ pc' = "ret"
                            /\ UNCHANGED stack
                    /\ UNCHANGED <<timed_out, gridAtTimeout, stackAtTimeout>>
    /\ UNCHANGED <<grid, start_time, outcome, grid0, placed, textVars, query>>

(***************************************************************************)
(* Sudoku::backtrack, one turn of the for loop over num.                   *)
(***************************************************************************)
\* isSafe holds: place num and call backtrack()
Place ==
    /\ pc = "loop"
    /\ Top.num <= MaxNum
    /\ isSafe(grid, Top.row, Top.col, Top.num)
    /\ grid' = SetCell(grid, Top.row, Top.col, Top.num)
    /\ placed' = TRUE
    /\ pc' = "enter"
    /\ UNCHANGED <<timed_out, start_time, now, stack, retval, outcome, grid0,
                   gridAtTimeout, stackAtTimeout, textVars, query>>

\* faulty variant: an unsafe candidate ends the loop, return false
SkipReturnsFalse ==
    /\ pc = "loop"
    /\ Top.num <= MaxNum
    /\ ~isSafe(grid, Top.row, Top.col, Top.num)
    /\ stack' = Pop
    /\ retval' = FALSE
    /\ pc' = "ret"
    /\ UNCHANGED <<grid, timed_out, start_time, now, outcome, grid0,
                   placed, gridAtTimeout, stackAtTimeout, textVars, query>>

\* isSafe fails: ++num
Skip ==
    /\ pc = "loop"
    /\ Top.num <= MaxNum
    /\ ~isSafe(grid, Top.row, Top.col, Top.num)
    /\ stack' = NextNum
    /\ UNCHANGED <<grid, timed_out, start_time, now, pc, retval, outcome, grid0,
                   placed, gridAtTimeout, stackAtTimeout, textVars, query>>

\* the loop is over: return false
LoopExit ==
    /\ pc = "loop"
    /\ Top.num > MaxNum
    /\ stack' = Pop
    /\ retval' = FALSE
    /\ pc' = "ret"
    /\ UNCHANGED <<grid, timed_out, start_time, now, outcome, grid0, placed,
                   gridAtTimeout, stackAtTimeout, textVars, query>>

(***************************************************************************)
(* Faulty variants of the code after the recursive call: the placement     *)
(* left in the grid on failure, and the timed_out test left out.           *)
(***************************************************************************)
AfterCallNoUndo ==
    /\ pc = "ret"
    /\ stack # << >>
    /\ IF retval
       THEN /\ stack' = Pop
            /\ UNCHANGED <<grid, retval, pc>>
       ELSE IF timed_out
       THEN /\ stack' = Pop
            /\ UNCHANGED <<grid, retval, pc>>
       ELSE /\ stack' = NextNum
            /\ pc' = "loop"
            /\ UNCHANGED <<grid, retval>>
    /\ UNCHANGED <<timed_out, start_time, now, outcome, grid0, placed,
                   gridAtTimeout, stackAtTimeout, textVars, query>>

AfterCallUndoOnTimeout ==
    /\ pc = "ret"
    /\ stack # << >>
    /\ IF retval
       THEN /\ stack' = Pop
            /\ UNCHANGED <<grid, retval, pc>>
       ELSE /\ grid' = SetCell(grid, Top.row, Top.col, 0)
            /\ stack' = NextNum
            /\ pc' = "loop"
            /\ UNCHANGED retval
    /\ UNCHANGED <<timed_out, start_time, now, outcome, grid0, placed,
                   gridAtTimeout, stackAtTimeout, textVars, query>>

(***************************************************************************)
(* Sudoku::backtrack, after the recursive call returned retval.            *)
(***************************************************************************)
AfterCall ==
    /\ pc = "ret"
    /\ stack # << >>
    /\ IF retval
       THEN /\ stack' = Pop
            /\ UNCHANGED <<grid, retval, pc>>
       ELSE IF timed_out
       THEN /\ stack' = Pop
            /\ UNCHANGED <<grid, retval, pc>>
       ELSE /\ grid' = SetCell(grid, Top.row, Top.col, 0)
            /\ stack' = NextNum
            /\ pc' = "loop"
            /\ UNCHANGED retval
    /\ UNCHANGED <<timed_out, start_time, now, outcome, grid0, placed,
                   gridAtTimeout, stackAtTimeout, textVars, query>>

(***************************************************************************)
(* solve() returns to main(), which picks the message.                     *)
(***************************************************************************)
SolveReturn ==
    /\ pc = "ret"
    /\ stack = << >>
    /\ outcome' = IF retval THEN "Solved"
                  ELSE IF timed_out THEN "TimedOut" ELSE "Exhausted"
    /\ pc' = "done"
    /\ UNCHANGED <<grid, timed_out, start_time, now, stack, retval, grid0, placed,
                   gridAtTimeout, stackAtTimeout, textVars, query>>

Next ==
    \/ Solve
    \/ BacktrackEnter
    \/ Place
    \/ Skip
    \/ LoopExit
    \/ AfterCall
    \/ SolveReturn

Spec == Init /\ [][Next]_vars

(***************************************************************************)
(* The text form.  A text is a sequence of characters; a character is a    *)
(* string of length one.                                                   *)
(***************************************************************************)
DigitChars == <<"0", "1", "2", "3", "4", "5", "6", "7", "8", "9">>

\* static_cast<char>(v + '0')
CharOf(v) == DigitChars[v + 1]

\* isdigit(c)
isdigit(c) == \E k \in 1 .. Len(DigitChars) : DigitChars[k] = c

\* c - '0'
DigitValue(c) == (CHOOSE k \in 1 .. Len(DigitChars) : DigitChars[k] = c) - 1

SeparatorLine == <<"-", "-", "-", "-", "-", "-", "-", "-", "-", "-", "-", "\n">>

(***************************************************************************)
(* Sudoku::toString: the inner loop over j from column j on, then the      *)
(* outer loop over i from row i on.                                        *)
(***************************************************************************)
RECURSIVE rowText(_, _, _)
rowText(g, i, j) ==
    IF j >= N THEN <<"\n">>
    ELSE <<(IF g[i][j] # 0 THEN CharOf(g[i][j]) ELSE ".")>>
         \o (IF (j + 1) % BoxSize = 0 /\ j + 1 # N THEN <<"|">> ELSE << >>)
         \o rowText(g, i, j + 1)

RECURSIVE rowsText(_, _)
rowsText(g, i) ==
    IF i >= N THEN << >>
    ELSE rowText(g, i, 0)
         \o (IF (i + 1) % BoxSize = 0 /\ i + 1 # N THEN SeparatorLine ELSE << >>)
         \o rowsText(g, i + 1)

toString(g) == rowsText(g, 0)

(***************************************************************************)
(* Sudoku::Sudoku(filename).  getline takes the characters up to the next  *)
(* newline, or to the end of the text, and fails on an exhausted text.     *)
(***************************************************************************)
\* line.find("---") != npos
hasDashes(line) ==
    \E k \in 1 .. (Len(line) - 2) :
        line[k] = "-" /\ line[k + 1] = "-" /\ line[k + 2] = "-"

\* faulty variant of the loop over the characters of a line: a character that is
\* neither '.' nor a digit takes a column too
RECURSIVE scanLineBarAdvances(_, _, _, _)
scanLineBarAdvances(line, k, current_col, rowCells) ==
    IF k > Len(line) \/ current_col >= N THEN rowCells
    ELSE IF line[k] = "."
    THEN scanLineBarAdvances(line, k + 1, current_col + 1, [rowCells EXCEPT ![current_col] = 0])
    ELSE IF isdigit(line[k])
    THEN scanLineBarAdvances(line, k + 1, current_col + 1,
                             [rowCells EXCEPT ![current_col] = DigitValue(line[k])])
    ELSE scanLineBarAdvances(line, k + 1, current_col + 1, rowCells)

\* the loop over the characters of a line, from character k on
RECURSIVE scanLine(_, _, _, _)
scanLine(line, k, current_col, rowCells) ==
    IF k > Len(line) \/ current_col >= N THEN rowCells
    ELSE IF line[k] = "."
    THEN scanLine(line, k + 1, current_col + 1, [rowCells EXCEPT ![current_col] = 0])
    ELSE IF isdigit(line[k])
    THEN scanLine(line, k + 1, current_col + 1,
                  [rowCells EXCEPT ![current_col] = DigitValue(line[k])])
    ELSE scanLine(line, k + 1, current_col, rowCells)

\* the while loop over the lines, with i rows filled so far
RECURSIVE readLines(_, _, _)
readLines(text, i, g) ==
    IF ~(i < N) \/ text = << >> THEN g
    ELSE LET nl   == {k \in 1 .. Len(text) : text[k] = "\n"}
             stop == IF nl = {} THEN Len(text) + 1
                     ELSE CHOOSE k \in nl : \A m \in nl : k <= m
             line == SubSeq(text, 1, stop - 1)
             rest == SubSeq(text, stop + 1, Len(text))
         IN  IF hasDashes(line) THEN readLines(rest, i, g)
             ELSE readLines(rest, i + 1, [g EXCEPT ![i] = scanLine(line, 1, 0, @)])

FromText(text) == readLines(text, 0, EmptyGrid)

(***************************************************************************)
(* The text round trip: saveToFile() writes toString() of the grid, and    *)
(* the constructor reads the file back into a fresh Sudoku.                *)
(***************************************************************************)
InitText == InitFrom(StartGrids) /\ pc = "menu"

saveToFile ==
    /\ pc = "menu"
    /\ file' = toString(grid)
    /\ saved' = grid
    /\ pc' = "saved"
    /\ UNCHANGED <<grid, grid0, solverVars, query>>

Import ==
    /\ pc = "saved"
    /\ grid' = FromText(file)
    /\ timed_out' = FALSE
    /\ pc' = "imported"
    /\ UNCHANGED <<start_time, now, stack, retval, outcome, file, grid0, placed,
                   gridAtTimeout, stackAtTimeout, saved, query>>

NextText ==
    \/ saveToFile
    \/ Import

SpecText == InitText /\ [][NextText]_vars

(***************************************************************************)
(* isSafe as a function of its arguments: called on any cell of a grid     *)
(* with any digit.                                                         *)
(***************************************************************************)
InitSafe == InitFrom(QueryGrids) /\ pc = "query"

CallIsSafe ==
    /\ pc = "query"
    /\ \E row \in Idx : \E col \in Idx : \E num \in 1 .. MaxNum :
          query' = [row |-> row, col |-> col, num |-> num,
                    result |-> isSafe(grid, row, col, num)]
    /\ pc' = "answered"
    /\ UNCHANGED <<grid, grid0, solverVars, textVars>>

NextSafe == CallIsSafe

SpecSafe == InitSafe /\ [][NextSafe]_vars

(***************************************************************************)
(* What the claims speak of: the 27 groups of a grid, duplicates, the      *)
(* solutions, and the valid completions of a starting grid, none of them   *)
(* defined through the code's own isSafe or findEmptyCell.                 *)
(***************************************************************************)
Cells == Idx \X Idx
Digits == 1 .. N
At(g, p) == g[p[1]][p[2]]

RowGroup(r) == {p \in Cells : p[1] = r}
ColGroup(c) == {p \in Cells : p[2] = c}
BoxGroup(b) == {p \in Cells : (p[1] \div BoxSize) = (b \div BoxSize)
                                /\ (p[2] \div BoxSize) = (b % BoxSize)}
Groups == {RowGroup(r) : r \in Idx} \cup {ColGroup(c) : c \in Idx}
              \cup {BoxGroup(b) : b \in Idx}

\* the non-zero values of every row, column and box are pairwise different
NoDup(g) ==
    \A G \in Groups :
        Cardinality({At(g, p) : p \in G} \ {0}) = Cardinality({p \in G : At(g, p) # 0})

\* every row, column and box holds each of 1..9 exactly once
IsSolution(g) ==
    \A G \in Groups : \A v \in Digits : Cardinality({p \in G : At(g, p) = v}) = 1

\* some row holds the same digit in two of its cells
RowDup(g) ==
    \E r \in Idx : \E c1 \in Idx : \E c2 \in Idx :
        c1 < c2 /\ g[r][c1] # 0 /\ g[r][c1] = g[r][c2]

\* the other cells of the row, the column and the box of p
Peers(p) ==
    {q \in Cells : q # p /\ (\/ q[1] = p[1]
                             \/ q[2] = p[2]
                             \/ (/\ (q[1] \div BoxSize) = (p[1] \div BoxSize)
                                 /\ (q[2] \div BoxSize) = (p[2] \div BoxSize)))}

\* the digits no given of g0 rules out for the empty cell p
Candidates(g0, p) == {v \in Digits : \A q \in Peers(p) : At(g0, q) # v}

\* every grid that keeps g's non-zero cells and gives each empty cell a candidate of g0
RECURSIVE Fills(_, _)
Fills(g0, g) ==
    LET e == {p \in Cells : At(g, p) = 0}
    IN  IF e = {} THEN {g}
        ELSE LET p == CHOOSE q \in e : TRUE
             IN  UNION { Fills(g0, [g EXCEPT ![p[1]][p[2]] = v]) : v \in Candidates(g0, p) }

\* the valid completions of the starting grid g0
Completions(g0) == {g \in Fills(g0, g0) : IsSolution(g)}

\* g is before or equal to h when the 81 cells are read row by row
LexLeq(g, h) ==
    \/ g = h
    \/ \E p \in Cells :
          /\ At(g, p) < At(h, p)
          /\ \A q \in Cells :
                (q[1] < p[1] \/ (q[1] = p[1] /\ q[2] < p[2])) => At(g, q) = At(h, q)

Done == pc = "done"

\* C1: from a starting grid without duplicates, a Solved grid has no empty cell and
\* every row, column and box holds each digit 1-9 exactly once.
C1_SolvedIsSolution ==
    (Done /\ outcome = "Solved" /\ NoDup(grid0)) => IsSolution(grid)

C1_Witness ==
    Done /\ outcome = "Solved" /\ NoDup(grid0) /\ placed /\ IsSolution(grid)

\* C2: from a starting grid without duplicates and with the deadline not reached,
\* Exhausted is returned only if the starting grid has no valid completion; if it
\* has one, Solved is returned.
C2_ExhaustedOnlyIfNoCompletion ==
    (Done /\ ~timed_out /\ NoDup(grid0)) =>
        /\ (outcome = "Exhausted" => Completions(grid0) = {})
        /\ (Completions(grid0) # {} => outcome = "Solved")

C2_Witness ==
    /\ Done /\ ~timed_out /\ NoDup(grid0)
    /\ outcome = "Exhausted" /\ placed /\ Completions(grid0) = {}

\* C3: from a starting grid with the same digit twice among the givens of one row,
\* solve() returns Exhausted when the deadline is not reached, never Solved.
C3_RowDupIsExhausted ==
    (Done /\ ~timed_out /\ RowDup(grid0)) => outcome = "Exhausted"

\* C4: every cell that holds a digit when solve() is called holds that digit in every
\* state of the call and in the grid left at return; only cells empty at the start
\* are written.
C4_GivensKept ==
    \A p \in Cells : At(grid0, p) # 0 => At(grid, p) = At(grid0, p)

C4_Witness ==
    /\ Done /\ outcome = "TimedOut"
    /\ \E p \in Cells : At(grid0, p) = 0 /\ At(grid, p) # 0
    /\ \E p \in Cells : At(grid0, p) # 0

\* C6 as stated: after Exhausted, when the search made a placement, some cell that
\* was empty before the call still holds a placed digit.
C6_ExhaustedLeavesPlacement ==
    (Done /\ outcome = "Exhausted" /\ placed) =>
        \E p \in Cells : At(grid0, p) = 0 /\ At(grid, p) # 0

\* C6 amended: after Exhausted every placement has been undone; the grid equals the
\* grid solve() was called on in all 81 cells.
C6_ExhaustedRestoresGrid ==
    (Done /\ outcome = "Exhausted") => grid = grid0

C6_Witness ==
    Done /\ outcome = "Exhausted" /\ placed /\ grid = grid0

\* C7: once a deadline check fails, no cell is written again, no frame tries another
\* candidate, every active frame returns false, solve() reports TimedOut, and the grid
\* at return is the grid of that moment with the placements of all active frames in it.
C7_TimeoutAbort ==
    timed_out =>
        /\ grid = gridAtTimeout
        /\ pc \in {"ret", "done"}
        /\ retval = FALSE
        /\ Len(stack) <= Len(stackAtTimeout)
        /\ stack = SubSeq(stackAtTimeout, 1, Len(stack))
        /\ \A k \in 1 .. Len(stackAtTimeout) :
              grid[stackAtTimeout[k].row][stackAtTimeout[k].col] = stackAtTimeout[k].num
        /\ (Done => outcome = "TimedOut")

C7_Witness ==
    /\ Done /\ timed_out /\ outcome = "TimedOut"
    /\ Len(stackAtTimeout) >= 2
    /\ grid = gridAtTimeout /\ grid # grid0

\* C8: from a starting grid without duplicates, in every state of solve() the non-zero
\* values of each row, column and box are pairwise different.
C8_NoDupWhileSolving ==
    NoDup(grid) \/ ~NoDup(grid0)

C8_Witness ==
    /\ NoDup(grid0) /\ pc = "loop" /\ Len(stack) >= 2 /\ Top.num > 1
    /\ grid # grid0 /\ NoDup(grid)

\* C10: from a starting grid without duplicates, a Solved grid is the valid completion
\* of the starting grid that comes first when the 81 cells are read row by row.
C10_SolvedIsLexMin ==
    (Done /\ outcome = "Solved" /\ NoDup(grid0)) =>
        /\ grid \in Completions(grid0)
        /\ \A h \in Completions(grid0) : LexLeq(grid, h)

C10_Witness ==
    /\ Done /\ outcome = "Solved" /\ NoDup(grid0)
    /\ Cardinality(Completions(grid0)) >= 2
    /\ \E h \in Completions(grid0) : h # grid /\ LexLeq(grid, h)

\* C5: decoding the text toString() produces yields the grid it was produced from in
\* all 81 cells; the '|' separators take no column and the dash lines take no row.
C5_RoundTrip ==
    pc = "imported" => grid = saved

C5_Witness ==
    /\ pc = "imported" /\ grid = saved
    /\ \E p \in Cells : At(saved, p) = 0
    /\ \E k \in 1 .. Len(file) : file[k] = "|"
    /\ hasDashes(file)
    /\ \A c \in Idx : saved[N - 1][c] # 0

QueryCell == <<query.row, query.col>>

\* C9 as stated: isSafe(row, col, value) is true exactly when value occurs in no other
\* cell of the row, the column and the box of (row, col), whatever the cell itself holds.
C9_SafeIffNoOtherCell ==
    pc = "answered" =>
        (query.result <=> \A q \in Peers(QueryCell) : At(grid, q) # query.num)

\* C9 amended: isSafe(row, col, value) is true exactly when value occurs in no cell of
\* the row, the column and the box of (row, col), the cell (row, col) itself included.
C9_SafeIffNoCell ==
    pc = "answered" =>
        (query.result <=>
            /\ At(grid, QueryCell) # query.num
            /\ \A q \in Peers(QueryCell) : At(grid, q) # query.num)

C9_Witness ==
    /\ pc = "answered"
    /\ At(grid, QueryCell) = query.num
    /\ \A q \in Peers(QueryCell) : At(grid, q) # query.num
    /\ query.result = FALSE

====
